---- MODULE Spec2Model ----
(***************************************************************************)
(* Model of the Dragnn kernels of myelin (src/myelin/kernel/dragnn.cc):    *)
(* the applicability predicates (Supports), the layout step (Adjust), the  *)
(* emission-time effects of Generate (register acquisition, fatal CHECKs)  *)
(* and the instruction sequences Generate emits, executed one basic block  *)
(* at a time on a small instance memory.                                   *)
(*                                                                         *)
(* Memory is a record of tensors, each a sequence of 4-byte words.  An     *)
(* address is a pair (tensor, byte offset).  Float words are IEEE-754      *)
(* single precision bit patterns of small non-negative integers, so that   *)
(* addss/vaddps are exact and summation order does not matter.             *)
(***************************************************************************)
EXTENDS Integers, Sequences, FiniteSets, TLC

VARIABLES
  step,      \* the graph node: operation type, input and output tensors
  avx,       \* CPU::Enabled(AVX)
  initial,   \* the step and the memory before compilation: [step, mem]
  mem,       \* memory: tensor name -> sequence of words
  bindings,  \* kernels bound by the successive selections for the step
  kernel,    \* kernel whose Adjust/Generate/code is being exercised
  pc,        \* position: compile phase or label in the generated code
  reg,       \* general purpose and xmm registers of the generated code
  ymm,       \* the ymm registers holding the running sum (unrolled kernel)
  alloc,     \* number of ymm registers acquired by Generate
  result,    \* kernel name -> output left by its generated code
  iters,     \* loop body executions: [feature |-> n, element |-> n]
  overrun    \* number of accesses outside the tensors so far

vars == <<step, avx, initial, mem, bindings, kernel, pc, reg, ymm, alloc,
          result, iters, overrun>>

(***************************************************************************)
(* Bounds of the model.                                                    *)
(***************************************************************************)
MaxFeatures == 2      \* feature ids per step: 0..MaxFeatures
VocabSize == 1        \* embedding rows besides the OOV row
AbsentDepth == 1      \* feature ids go down to -1 - AbsentDepth
MaxPrior == 1         \* prior content of the output buffer: 0..MaxPrior
MaxSeed == 1          \* embedding matrices are drawn from seeds 0..MaxSeed
MaxOverrun == 1       \* out-of-bounds accesses followed before the run stops
MaxSelections == 2    \* repeated selections for the same step

(***************************************************************************)
(* Program constants.                                                      *)
(***************************************************************************)
kBlockSize == 8
\* A cap of one block more than the ymm registers hold.
kMaxEmbeddingDimOneMore == kBlockSize * 17
kMaxEmbeddingDim == kBlockSize * 16
SizeOfFloat == 4
OneBits == 1065353216     \* 0x3f800000
NumYMMRegisters == 16

NotRun == [ran |-> FALSE, out |-> <<>>]

(***************************************************************************)
(* Float words.                                                            *)
(***************************************************************************)
RECURSIVE Pow2(_)
Pow2(n) == IF n = 0 THEN 1 ELSE 2 * Pow2(n - 1)

RECURSIVE Log2(_)
Log2(n) == IF n <= 1 THEN 0 ELSE 1 + Log2(n \div 2)

\* The IEEE-754 single precision bit pattern of the integer n, 0 <= n < 2^24.
FloatBits(n) ==
  IF n = 0 THEN 0
  ELSE LET e == Log2(n)
       IN  (127 + e) * Pow2(23) + (n - Pow2(e)) * Pow2(23 - e)

\* The value of a float word that encodes a small non-negative integer.
FloatValue(w) ==
  IF w = 0 THEN 0
  ELSE LET e == (w \div Pow2(23)) - 127
       IN  Pow2(e) + (w % Pow2(23)) \div Pow2(23 - e)

\* Words are held as signed 32-bit values.  A word in -2^23 + 1 .. -1 has
\* sign 1, exponent 255 and a mantissa with its top bit set: a quiet NaN.  A
\* word in 0 .. 2^23 - 1 is zero or a denormal, of value word * 2^-149.
IsNaN(w) == w < 0 /\ w > 0 - Pow2(23)
IsDenormal(w) == w >= 0 /\ w < Pow2(23)

\* addss a, b and one lane of vaddps, on the words the model holds (quiet
\* NaNs, denormals, and floats of small non-negative integers): a NaN
\* operand is the result, the first one first; two denormals add their
\* mantissas; a denormal added to a normal float is rounded away.
AddFloat(a, b) ==
  IF IsNaN(a) THEN a
  ELSE IF IsNaN(b) THEN b
  ELSE IF IsDenormal(a) /\ IsDenormal(b) THEN a + b
  ELSE IF IsDenormal(a) THEN b
  ELSE IF IsDenormal(b) THEN a
  ELSE FloatBits(FloatValue(a) + FloatValue(b))

(***************************************************************************)
(* Tensors and steps.                                                      *)
(***************************************************************************)
Tensor(type, dims) ==
  [type |-> type, dims |-> dims, ref |-> FALSE, link |-> "", consumers |-> 1,
   value |-> 0, order |-> "ANY", align |-> 1, shared |-> ""]

Rank(t) == Len(t.dims)
Dim(t, d) == t.dims[d + 1]

RECURSIVE Product(_)
Product(s) == IF s = <<>> THEN 1 ELSE Head(s) * Product(Tail(s))

Elements(t) == Product(t.dims)
Size(t) == Elements(t) * SizeOfFloat
Stride0(t) == Dim(t, 1) * SizeOfFloat

Indegree(s) == Len(s.inputs)
Outdegree(s) == Len(s.outputs)
Input(s, i) == s.inputs[i + 1]
Output(s, i) == s.outputs[i + 1]

(***************************************************************************)
(* Applicability: Kernel::Supports of each kernel.                         *)
(***************************************************************************)
DragnnInitializer_Supports(s) == TRUE

DragnnCollect_Supports(s) ==
  /\ ~(Indegree(s) # 2 \/ Outdegree(s) # 1)
  /\ LET f == Input(s, 0)
         M == Input(s, 1)
         R == Output(s, 0)
     IN  /\ ~(f.type # "DT_INT32")
         /\ ~(M.type # "DT_FLOAT" \/ Rank(M) # 2)
         /\ ~(R.type # "DT_FLOAT" \/ Rank(R) # 2)
         /\ ~(Dim(f, 0) # 1 \/ Dim(f, 1) # Dim(R, 0))
         /\ ~(Dim(R, 1) # Dim(M, 1) + 1)

DragnnLookup_Supports(s) ==
  /\ ~(Indegree(s) # 2 \/ Outdegree(s) # 1)
  /\ LET f == Input(s, 0)
         M == Input(s, 1)
         v == Output(s, 0)
     IN  /\ ~(f.type # "DT_INT32")
         /\ ~(M.type # "DT_FLOAT" \/ Rank(M) # 2)
         /\ ~(v.type # "DT_FLOAT" \/ Rank(v) # 2)
         /\ ~(Dim(v, 0) # 1 \/ Dim(v, 1) # Dim(M, 1))

DragnnLookupSingle_Supports(s) ==
  /\ ~(Indegree(s) # 2 \/ Outdegree(s) # 1)
  /\ LET f == Input(s, 0)
         M == Input(s, 1)
         v == Output(s, 0)
     IN  /\ ~(f.type # "DT_INT32" \/ Elements(f) # 1)
         /\ ~(M.type # "DT_FLOAT" \/ Rank(M) # 2)
         /\ ~(v.type # "DT_FLOAT" \/ Rank(v) # 2)
         /\ ~(Dim(v, 0) # 1 \/ Dim(v, 1) # Dim(M, 1))

DragnnLookupUnrolled_Supports(s, cpuAvx) ==
  /\ cpuAvx
  /\ ~(Indegree(s) # 2 \/ Outdegree(s) # 1)
  /\ LET f == Input(s, 0)
         M == Input(s, 1)
         v == Output(s, 0)
         embedding_dims == Dim(M, 1)
     IN  /\ ~(f.type # "DT_INT32")
         /\ ~(M.type # "DT_FLOAT" \/ Rank(M) # 2)
         /\ ~(v.type # "DT_FLOAT" \/ Rank(v) # 2)
         /\ ~(Dim(v, 0) # 1 \/ Dim(v, 1) # Dim(M, 1))
         /\ ~(embedding_dims > kMaxEmbeddingDim)
         /\ ~(embedding_dims % kBlockSize # 0)

DragnnConcat_Supports(s) ==
  /\ ~(Indegree(s) < 2 \/ Outdegree(s) # 1)
  /\ LET n == Indegree(s) - 1
         axis == Input(s, n)
     IN  ~(axis.value # 1)

\* Supports taking a reshape to have a single input.
NoOpReshape_SupportsOneInput(s) ==
  /\ ~(Indegree(s) # 1 \/ Outdegree(s) # 1)
  /\ LET x == Input(s, 0)
         y == Output(s, 0)
     IN  /\ ~(x.type # y.type)
         /\ ~(Elements(x) # Elements(y))
         /\ ~(x.consumers # 1)

NoOpReshape_Supports(s) ==
  /\ ~(Indegree(s) # 2 \/ Outdegree(s) # 1)
  /\ LET x == Input(s, 0)
         y == Output(s, 0)
     IN  /\ ~(x.type # y.type)
         /\ ~(Elements(x) # Elements(y))
         /\ ~(x.consumers # 1)

Operation(k) ==
  CASE k = "DragnnInitializerDummy" -> "DragnnEmbeddingInitializer"
    [] k = "DragnnCollect" -> "Collect"
    [] k = "DragnnLookup" -> "Lookup"
    [] k = "DragnnLookupSingle" -> "Lookup"
    [] k = "DragnnLookupUnrolled" -> "Lookup"
    [] k = "DragnnConcat" -> "ConcatV2"
    [] k = "NoOpReshape" -> "Reshape"

Supports(k, s, cpuAvx) ==
  CASE k = "DragnnInitializerDummy" -> DragnnInitializer_Supports(s)
    [] k = "DragnnCollect" -> DragnnCollect_Supports(s)
    [] k = "DragnnLookup" -> DragnnLookup_Supports(s)
    [] k = "DragnnLookupSingle" -> DragnnLookupSingle_Supports(s)
    [] k = "DragnnLookupUnrolled" -> DragnnLookupUnrolled_Supports(s, cpuAvx)
    [] k = "DragnnConcat" -> DragnnConcat_Supports(s)
    [] k = "NoOpReshape" -> NoOpReshape_Supports(s)

(***************************************************************************)
(* The kernel library.                                                     *)
(***************************************************************************)
\* The kernels in the order RegisterDragnnKernels registers them.
RegisterDragnnKernels ==
  <<"DragnnInitializerDummy", "DragnnLookupSingle", "DragnnLookupUnrolled",
    "DragnnLookup", "DragnnCollect", "DragnnConcat", "NoOpReshape">>

\* The registered kernels for an operation, in registration order.
Lookup(op) ==
  LET RECURSIVE Keep(_)
      Keep(q) == IF q = <<>> THEN <<>>
                 ELSE IF Operation(Head(q)) = op
                      THEN <<Head(q)>> \o Keep(Tail(q))
                      ELSE Keep(Tail(q))
  IN  Keep(RegisterDragnnKernels)

NoKernel == "none"

\* The last registered kernel for the step's operation that supports it.
SelectLastRegistered(s, cpuAvx) ==
  LET ks == Lookup(s.type)
      RECURSIVE Last(_)
      Last(q) == IF q = <<>> THEN NoKernel
                 ELSE IF Supports(q[Len(q)], s, cpuAvx) THEN q[Len(q)]
                      ELSE Last(SubSeq(q, 1, Len(q) - 1))
  IN  Last(ks)

\* The first registered kernel for the step's operation that supports it.
SelectKernel(s, cpuAvx) ==
  LET ks == Lookup(s.type)
      RECURSIVE First(_)
      First(q) == IF q = <<>> THEN NoKernel
                  ELSE IF Supports(Head(q), s, cpuAvx) THEN Head(q)
                       ELSE First(Tail(q))
  IN  First(ks)

(***************************************************************************)
(* Memory, addresses and registers of the generated code.                  *)
(***************************************************************************)
\* An address is a tensor and a byte offset from its start.  Offsets are 64
\* bits wide in the code: the offset is hi * Far + off, with hi = 0 for
\* every offset below Far.
Far == 1073741824         \* 2^30

Addr(t, off) == [t |-> t, hi |-> 0, off |-> off]

\* Operand(base, disp): the address disp bytes after the one in a register.
Operand(a, disp) ==
  LET sum == a.off + disp
  IN  [t |-> a.t, hi |-> a.hi + sum \div Far, off |-> sum % Far]

\* Multiply(acc, stride); addq acc, base: the address of row acc, for
\* 0 <= acc < 2^31 and a stride below 2^10, computed in halves of acc so that
\* no intermediate value leaves 32 bits.
RowAddress(base, acc, stride) ==
  LET half == 32768      \* 2^15
      high == (acc \div half) * stride
      low == (high % half) * half + (acc % half) * stride
      scaled == [t |-> base.t, hi |-> base.hi + high \div half + low \div Far,
                 off |-> low % Far]
  IN  Operand(scaled, base.off)

InBounds(m, a) ==
  /\ a.hi = 0
  /\ a.off >= 0 /\ a.off % SizeOfFloat = 0
  /\ a.off \div SizeOfFloat < Len(m[a.t])

Word(m, a) == m[a.t][a.off \div SizeOfFloat + 1]

\* The tensors lie in memory one after the other in the order m.order, and
\* every word around them holds m.pad; "gap" in the order is one such word
\* between two tensors.  Base is the byte position of the n-th tensor of the
\* order.
RECURSIVE Base(_, _)
Base(m, n) ==
  IF n <= 1 THEN 0
  ELSE Base(m, n - 1) + Len(m[m.order[n - 1]]) * SizeOfFloat

Place(m, t) == CHOOSE n \in 1..Len(m.order) : m.order[n] = t

Outside == Addr("outside", 0)

\* The tensor word an address falls on: a word of its own tensor, or, past
\* it, a word of a tensor that lies behind it, or none.
Resolve(m, a) ==
  IF InBounds(m, a) THEN a
  ELSE IF a.hi # 0 \/ a.off < 0 \/ a.off % SizeOfFloat # 0 THEN Outside
  ELSE LET p == Base(m, Place(m, a.t)) + a.off
           hit == {n \in 1..Len(m.order) :
                     /\ Base(m, n) <= p
                     /\ p < Base(m, n) + Len(m[m.order[n]]) * SizeOfFloat}
       IN  IF hit = {} THEN Outside
           ELSE LET n == CHOOSE n \in hit : TRUE
                IN  Addr(m.order[n], p - Base(m, n))

Mapped(m, a) == Resolve(m, a) # Outside

\* A load yields the word at the address, whichever tensor holds it.
Load(m, a) ==
  LET r == Resolve(m, a)
  IN  IF r = Outside THEN m.pad ELSE Word(m, r)

\* A store writes the word at the address, whichever tensor holds it; a
\* store around the tensors lands in memory the model does not hold.
Store(m, a, w) ==
  LET r == Resolve(m, a)
  IN  IF r = Outside THEN m
      ELSE [m EXCEPT ![r.t][r.off \div SizeOfFloat + 1] = w]

\* An int32 word is held as its signed value, which movsxlq keeps when it
\* extends the word to 64 bits; floats are held as their bit patterns.

NoRegs ==
  [acc |-> 0, input |-> 0, embeddings |-> 0, activations |-> 0, output |-> 0,
   col |-> 0, row |-> 0, oov |-> 0, elem |-> 0, index |-> 0, one |-> 0,
   src |-> 0, dst |-> 0, i |-> 0, offset |-> 0]

NoIters == [feature |-> 0, element |-> 0]

CodeLabels(k) ==
  CASE k = "DragnnLookup" ->
         {"lookup_entry", "lookup_l1", "lookup_l2", "lookup_l3", "lookup_l4"}
    [] k = "DragnnLookupUnrolled" ->
         {"unrolled_entry", "unrolled_l1", "unrolled_l2", "unrolled_l3",
          "unrolled_store"}
    [] k = "DragnnLookupSingle" -> {"single_entry", "single_store"}
    [] k = "DragnnCollect" ->
         {"collect_entry", "collect_load", "collect_copy", "collect_l2",
          "collect_l3"}
    [] k = "DragnnConcat" -> {"concat_copy"}
    [] OTHER -> {}

Entry(k) ==
  CASE k = "DragnnLookup" -> "lookup_entry"
    [] k = "DragnnLookupUnrolled" -> "unrolled_entry"
    [] k = "DragnnLookupSingle" -> "single_entry"
    [] k = "DragnnCollect" -> "collect_entry"
    [] k = "DragnnConcat" -> "concat_copy"
    [] OTHER -> "done"

\* One more access outside the tensors is followed only below the bound.
MayAccess(ok) == ok \/ overrun < MaxOverrun
Count(ok) == IF ok THEN overrun ELSE overrun + 1

(***************************************************************************)
(* DragnnLookup::Generate: the scalar lookup loop.                         *)
(***************************************************************************)
\* Load tensor locations; movq oov, embedding_size; xorq col, col.
LookupEntry ==
  /\ kernel = "DragnnLookup" /\ pc = "lookup_entry"
  /\ LET M == Input(step, 1)
         embedding_size == Dim(M, 0) - 1
     IN  reg' = [reg EXCEPT !.input = Addr("f", 0),
                            !.embeddings = Addr("M", 0),
                            !.output = Addr("v", 0),
                            !.oov = embedding_size,
                            !.col = 0]
  /\ pc' = "lookup_l1"
  /\ UNCHANGED <<step, avx, initial, mem, bindings, kernel, ymm, alloc, result,
                 iters, overrun>>

\* l1: movsxlq acc, [input + col*4]; testq; j positive, l2; cmpq acc, -1;
\* j not_equal, l4; movq acc, oov.
LookupResolve(id, oov) ==
  IF id >= 0 THEN [acc |-> id, pc |-> "lookup_l2"]
  ELSE IF id # -1 THEN [acc |-> id, pc |-> "lookup_l4"]
       ELSE [acc |-> oov, pc |-> "lookup_l2"]

LookupL1 ==
  /\ kernel = "DragnnLookup" /\ pc = "lookup_l1"
  /\ LET a == Operand(reg.input, reg.col * 4)
     IN  /\ MayAccess(InBounds(mem, a))
         /\ overrun' = Count(InBounds(mem, a))
         /\ LET r == LookupResolve(Load(mem, a), reg.oov)
            IN  /\ reg' = [reg EXCEPT !.acc = r.acc]
                /\ pc' = r.pc
  /\ iters' = [iters EXCEPT !.feature = @ + 1]
  /\ UNCHANGED <<step, avx, initial, mem, bindings, kernel, ymm, alloc, result>>

\* l2: Multiply(acc, M->stride(0)); leaq acc, [embeddings + acc]; xorq row.
LookupL2 ==
  /\ kernel = "DragnnLookup" /\ pc = "lookup_l2"
  /\ LET M == Input(step, 1)
     IN  reg' = [reg EXCEPT !.acc = RowAddress(reg.embeddings, reg.acc,
                                                Stride0(M)),
                            !.row = 0]
  /\ pc' = "lookup_l3"
  /\ UNCHANGED <<step, avx, initial, mem, bindings, kernel, ymm, alloc, result,
                 iters, overrun>>

\* l3: movss elem, [output + row*4]; addss elem, [acc + row*4];
\* movss [output + row*4], elem; incq row; cmpq row, embedding_dims; jne l3.
LookupL3 ==
  /\ kernel = "DragnnLookup" /\ pc = "lookup_l3"
  /\ LET v == Output(step, 0)
         embedding_dims == Dim(v, 1)
         dst == Operand(reg.output, reg.row * 4)
         src == Operand(reg.acc, reg.row * 4)
         ok == InBounds(mem, dst) /\ InBounds(mem, src)
     IN  /\ MayAccess(ok)
         /\ overrun' = Count(ok)
         /\ LET elem == AddFloat(Load(mem, dst), Load(mem, src))
            IN  /\ mem' = Store(mem, dst, elem)
                /\ reg' = [reg EXCEPT !.elem = elem, !.row = @ + 1]
         /\ pc' = IF reg.row + 1 # embedding_dims THEN "lookup_l3"
                  ELSE "lookup_l4"
  /\ iters' = [iters EXCEPT !.element = @ + 1]
  /\ UNCHANGED <<step, avx, initial, bindings, kernel, ymm, alloc, result>>

\* l4: incq col; cmpq col, num_features; jne l1.
LookupL4 ==
  /\ kernel = "DragnnLookup" /\ pc = "lookup_l4"
  /\ LET f == Input(step, 0)
         num_features == Dim(f, 1)
     IN  /\ reg' = [reg EXCEPT !.col = @ + 1]
         /\ pc' = IF reg.col + 1 # num_features THEN "lookup_l1" ELSE "done"
  /\ UNCHANGED <<step, avx, initial, mem, bindings, kernel, ymm, alloc, result,
                 iters, overrun>>

(***************************************************************************)
(* DragnnLookupUnrolled::Generate: the running sum held in ymm registers.  *)
(***************************************************************************)
\* int blocks = embedding_dims / kBlockSize, one ymm register per block.
Blocks(s) == Dim(Output(s, 0), 1) \div kBlockSize

Lanes == 1..kBlockSize

\* The byte displacement of lane j of block i (both from 0).
LaneDisp(i, j) == i * kBlockSize * SizeOfFloat + j * SizeOfFloat

BlockInBounds(m, a, blocks) ==
  \A i \in 0..(blocks - 1) : \A j \in 0..(kBlockSize - 1) :
     InBounds(m, Operand(a, LaneDisp(i, j)))

\* Load tensor locations; vxorps sum[i]; movq oov, embedding_size; xorq col.
UnrolledEntry ==
  /\ kernel = "DragnnLookupUnrolled" /\ pc = "unrolled_entry"
  /\ LET M == Input(step, 1)
         embedding_size == Dim(M, 0) - 1
     IN  reg' = [reg EXCEPT !.input = Addr("f", 0),
                            !.embeddings = Addr("M", 0),
                            !.output = Addr("v", 0),
                            !.oov = embedding_size,
                            !.col = 0]
  /\ ymm' = [i \in 1..Blocks(step) |-> [j \in Lanes |-> 0]]
  /\ pc' = "unrolled_l1"
  /\ UNCHANGED <<step, avx, initial, mem, bindings, kernel, alloc, result,
                 iters, overrun>>

\* l1: movsxlq acc, [input + col*4]; testq; j positive, l2; cmpq acc, -1;
\* j not_equal, l3; movq acc, oov.
UnrolledResolve(id, oov) ==
  IF id >= 0 THEN [acc |-> id, pc |-> "unrolled_l2"]
  ELSE IF id # -1 THEN [acc |-> id, pc |-> "unrolled_l3"]
       ELSE [acc |-> oov, pc |-> "unrolled_l2"]

UnrolledL1 ==
  /\ kernel = "DragnnLookupUnrolled" /\ pc = "unrolled_l1"
  /\ LET a == Operand(reg.input, reg.col * 4)
     IN  /\ MayAccess(InBounds(mem, a))
         /\ overrun' = Count(InBounds(mem, a))
         /\ LET r == UnrolledResolve(Load(mem, a), reg.oov)
            IN  /\ reg' = [reg EXCEPT !.acc = r.acc]
                /\ pc' = r.pc
  /\ iters' = [iters EXCEPT !.feature = @ + 1]
  /\ UNCHANGED <<step, avx, initial, mem, bindings, kernel, ymm, alloc,
                 result>>

\* l2: Multiply(acc, M->stride(0)); addq acc, embeddings;
\* vaddps sum[i], sum[i], [acc + i*kBlockSize*sizeof(float)] for each block.
UnrolledL2 ==
  /\ kernel = "DragnnLookupUnrolled" /\ pc = "unrolled_l2"
  /\ LET M == Input(step, 1)
         a == RowAddress(reg.embeddings, reg.acc, Stride0(M))
         ok == BlockInBounds(mem, a, Len(ymm))
     IN  /\ MayAccess(ok)
         /\ overrun' = Count(ok)
         /\ reg' = [reg EXCEPT !.acc = a]
         /\ ymm' = [i \in 1..Len(ymm) |-> [j \in Lanes |->
                      AddFloat(ymm[i][j],
                               Load(mem, Operand(a, LaneDisp(i - 1, j - 1))))]]
  /\ pc' = "unrolled_l3"
  /\ UNCHANGED <<step, avx, initial, mem, bindings, kernel, alloc, result,
                 iters>>

\* l3: incq col; cmpq col, num_features; jne l1.
UnrolledL3 ==
  /\ kernel = "DragnnLookupUnrolled" /\ pc = "unrolled_l3"
  /\ LET f == Input(step, 0)
         num_features == Dim(f, 1)
     IN  /\ reg' = [reg EXCEPT !.col = @ + 1]
         /\ pc' = IF reg.col + 1 # num_features THEN "unrolled_l1"
                  ELSE "unrolled_store"
  /\ UNCHANGED <<step, avx, initial, mem, bindings, kernel, ymm, alloc,
                 result, iters, overrun>>

\* vmovaps [output + i*kBlockSize*sizeof(float)], sum[i] for each block.
RECURSIVE StoreLanes(_, _, _, _)
StoreLanes(m, a, regs, n) ==
  IF n = 0 THEN m
  ELSE LET i == (n - 1) \div kBlockSize
           j == (n - 1) % kBlockSize
       IN  StoreLanes(Store(m, Operand(a, LaneDisp(i, j)), regs[i + 1][j + 1]),
                      a, regs, n - 1)

UnrolledStore ==
  /\ kernel = "DragnnLookupUnrolled" /\ pc = "unrolled_store"
  /\ mem' = StoreLanes(mem, reg.output, ymm, Len(ymm) * kBlockSize)
  /\ pc' = "done"
  /\ UNCHANGED <<step, avx, initial, bindings, kernel, reg, ymm, alloc,
                 result, iters, overrun>>

(***************************************************************************)
(* DragnnLookupSingle::Generate: store a reference to the embedding row.   *)
(***************************************************************************)
\* The OOV substitution with the move taken on less_equal instead of negative.
SingleResolveLessEqual(id, oov) == IF id <= 0 THEN oov ELSE id

\* movq oov, embedding_size; testq acc, acc; cmovq negative, acc, oov.
SingleResolve(id, oov) == IF id < 0 THEN oov ELSE id

\* movsxlq acc, [instance + f->offset()], then the OOV substitution.
SingleEntry ==
  /\ kernel = "DragnnLookupSingle" /\ pc = "single_entry"
  /\ LET M == Input(step, 1)
         embedding_size == Dim(M, 0) - 1
         a == Addr("f", 0)
     IN  /\ MayAccess(InBounds(mem, a))
         /\ overrun' = Count(InBounds(mem, a))
         /\ reg' = [reg EXCEPT !.oov = embedding_size,
                               !.acc = SingleResolve(Load(mem, a),
                                                     embedding_size)]
  /\ pc' = "single_store"
  /\ UNCHANGED <<step, avx, initial, mem, bindings, kernel, ymm, alloc,
                 result, iters>>

\* Multiply(acc, M->stride(0)); LoadTensorAddress(embeddings, M);
\* addq acc, embeddings; movq [instance + v->offset()], acc.
SingleStore ==
  /\ kernel = "DragnnLookupSingle" /\ pc = "single_store"
  /\ LET M == Input(step, 1)
         embeddings == Addr("M", 0)
         acc == RowAddress(embeddings, reg.acc, Stride0(M))
     IN  /\ reg' = [reg EXCEPT !.embeddings = embeddings, !.acc = acc]
         /\ mem' = [mem EXCEPT !.vref = <<acc>>]
  /\ pc' = "done"
  /\ UNCHANGED <<step, avx, initial, bindings, kernel, ymm, alloc, result,
                 iters, overrun>>

(***************************************************************************)
(* MacroAssembler::Copy: size bytes from src + sdisp to dst + ddisp.       *)
(***************************************************************************)
\* The words are copied from the first to the last.
RECURSIVE CopyWords(_, _, _, _, _)
CopyWords(m, dst, src, k, n) ==
  IF k = n THEN m
  ELSE LET d == Operand(dst, k * SizeOfFloat)
           s == Operand(src, k * SizeOfFloat)
       IN  CopyWords(Store(m, d, Load(m, s)), dst, src, k + 1, n)

Copy(m, dst, ddisp, src, sdisp, size) ==
  CopyWords(m, Operand(dst, ddisp), Operand(src, sdisp), 0,
            size \div SizeOfFloat)

CopyInBounds(m, dst, ddisp, src, sdisp, size) ==
  \A n \in 0..(size \div SizeOfFloat - 1) :
     /\ InBounds(m, Operand(dst, ddisp + n * SizeOfFloat))
     /\ InBounds(m, Operand(src, sdisp + n * SizeOfFloat))

(***************************************************************************)
(* DragnnCollect::Generate.                                                *)
(***************************************************************************)
\* Load tensor locations; xorq index, index when there is a loop.
CollectEntry ==
  /\ kernel = "DragnnCollect" /\ pc = "collect_entry"
  /\ reg' = [reg EXCEPT !.input = Addr("f", 0),
                        !.activations = Addr("M", 0),
                        !.output = Addr("R", 0),
                        !.index = 0]
  /\ pc' = "collect_load"
  /\ UNCHANGED <<step, avx, initial, mem, bindings, kernel, ymm, alloc,
                 result, iters, overrun>>

\* l1: movsxlq acc, [input] or [input + index*4]; testq acc, acc;
\* j negative, l2.
CollectLoad ==
  /\ kernel = "DragnnCollect" /\ pc = "collect_load"
  /\ LET f == Input(step, 0)
         num_features == Dim(f, 1)
         a == IF num_features = 1 THEN reg.input
              ELSE Operand(reg.input, reg.index * 4)
     IN  /\ MayAccess(InBounds(mem, a))
         /\ overrun' = Count(InBounds(mem, a))
         /\ LET acc == Load(mem, a)
            IN  /\ reg' = [reg EXCEPT !.acc = acc]
                /\ pc' = IF acc < 0 THEN "collect_l2" ELSE "collect_copy"
  /\ iters' = [iters EXCEPT !.feature = @ + 1]
  /\ UNCHANGED <<step, avx, initial, mem, bindings, kernel, ymm, alloc,
                 result>>

\* Multiply(acc, M->stride(0)); addq acc, activations;
\* Copy(output, 0, acc, 0, dims * sizeof(float)); jmp l3.
CollectCopy ==
  /\ kernel = "DragnnCollect" /\ pc = "collect_copy"
  /\ LET M == Input(step, 1)
         dims == Dim(M, 1)
         acc == RowAddress(reg.activations, reg.acc, Stride0(M))
         ok == CopyInBounds(mem, reg.output, 0, acc, 0, dims * SizeOfFloat)
     IN  /\ MayAccess(ok)
         /\ overrun' = Count(ok)
         /\ reg' = [reg EXCEPT !.acc = acc]
         /\ mem' = Copy(mem, reg.output, 0, acc, 0, dims * SizeOfFloat)
  /\ pc' = "collect_l3"
  /\ UNCHANGED <<step, avx, initial, bindings, kernel, ymm, alloc, result,
                 iters>>

\* The indicator set for every negative feature id.
CollectSetsIndicatorIfNegative(acc) == acc < 0

\* cmpq acc, -1; j not_equal, l3.
CollectSetsIndicator(acc) == acc = 0 - 1

\* l2: cmpq acc, -1; j not_equal, l3; movl one, 0x3f800000;
\* movl [output + dims*sizeof(float)], one.
CollectL2 ==
  /\ kernel = "DragnnCollect" /\ pc = "collect_l2"
  /\ LET M == Input(step, 1)
         dims == Dim(M, 1)
         a == Operand(reg.output, dims * SizeOfFloat)
     IN  IF ~CollectSetsIndicator(reg.acc)
         THEN UNCHANGED <<reg, mem, overrun>>
         ELSE /\ MayAccess(InBounds(mem, a))
              /\ overrun' = Count(InBounds(mem, a))
              /\ reg' = [reg EXCEPT !.one = OneBits]
              /\ mem' = Store(mem, a, OneBits)
  /\ pc' = "collect_l3"
  /\ UNCHANGED <<step, avx, initial, bindings, kernel, ymm, alloc, result,
                 iters>>

\* l3: addq output, R->stride(0); incq index; cmpq index, num_features;
\* j not_equal, l1 (all of it only when there is a loop).
CollectL3 ==
  /\ kernel = "DragnnCollect" /\ pc = "collect_l3"
  /\ LET f == Input(step, 0)
         R == Output(step, 0)
         num_features == Dim(f, 1)
     IN  IF num_features # 1
         THEN /\ reg' = [reg EXCEPT !.output = Operand(@, Stride0(R)),
                                    !.index = @ + 1]
              /\ pc' = IF reg.index + 1 # num_features THEN "collect_load"
                       ELSE "done"
         ELSE /\ reg' = reg
              /\ pc' = "done"
  /\ UNCHANGED <<step, avx, initial, mem, bindings, kernel, ymm, alloc,
                 result, iters, overrun>>

(***************************************************************************)
(* DragnnConcat::Generate.                                                 *)
(***************************************************************************)
InputName(i) == <<"x0", "x1", "x2", "x3", "x4">>[i + 1]

\* int offset after n passes of the emission loop: offset += size.
RECURSIVE ConcatBytes(_, _)
ConcatBytes(s, n) ==
  IF n = 0 THEN 0 ELSE ConcatBytes(s, n - 1) + Size(Input(s, n - 1))

\* Every copy emitted to the start of the output.
ConcatDispZero(offset) == 0

\* The displacement in the output that Copy(dst, offset, src, 0, size) gets.
ConcatDisp(offset) == offset

\* The code of one pass of the emission loop:
\* LoadTensorAddress(src, input(i)); Copy(dst, offset, src, 0, size).
ConcatCopy ==
  /\ kernel = "DragnnConcat" /\ pc = "concat_copy"
  /\ LET n == Indegree(step) - 1
         i == reg.i
         size == Size(Input(step, i))
         offset == ConcatBytes(step, i)
         src == Addr(InputName(i), 0)
         dst == Addr("y", 0)
     IN  /\ mem' = Copy(mem, dst, ConcatDisp(offset), src, 0, size)
         /\ reg' = [reg EXCEPT !.src = src, !.dst = dst, !.i = i + 1,
                               !.offset = offset + size]
         /\ pc' = IF i + 1 < n THEN "concat_copy" ELSE "done"
  /\ UNCHANGED <<step, avx, initial, bindings, kernel, ymm, alloc, result,
                 iters, overrun>>

(***************************************************************************)
(* Compilation of a step: selection, Adjust, and what Generate does while  *)
(* it emits (register acquisition and fatal CHECKs).                       *)
(***************************************************************************)
Kernels == {RegisterDragnnKernels[i] : i \in 1..Len(RegisterDragnnKernels)}

\* The memory of a step that is compiled and not run.
NoCompileMemory == [f |-> <<>>]

\* The compiler binds the step to the kernel the library selects.
Select ==
  /\ pc = "select" /\ Len(bindings) < MaxSelections
  /\ bindings' = Append(bindings, SelectKernel(step, avx))
  /\ UNCHANGED <<step, avx, initial, mem, kernel, pc, reg, ymm, alloc,
                 result, iters, overrun>>

Bind ==
  /\ pc = "select" /\ bindings # <<>>
  /\ bindings[Len(bindings)] # NoKernel
  /\ kernel' = bindings[Len(bindings)]
  /\ pc' = "adjust"
  /\ UNCHANGED <<step, avx, initial, mem, bindings, reg, ymm, alloc, result,
                 iters, overrun>>

\* A kernel exercised on its own: any kernel that supports the step.
Compile(k) ==
  /\ pc = "select" /\ ~result[k].ran
  /\ mem # NoCompileMemory
  /\ Operation(k) = step.type
  /\ Supports(k, step, avx)
  /\ kernel' = k
  /\ pc' = "adjust"
  /\ UNCHANGED <<step, avx, initial, mem, bindings, reg, ymm, alloc, result,
                 iters, overrun>>

SetInput(s, i, t) == [s EXCEPT !.inputs[i + 1] = t]
SetOutput(s, i, t) == [s EXCEPT !.outputs[i + 1] = t]

\* DragnnTyper::InferTypes: the output of a DragnnEmbeddingInitializer with
\* one output becomes an int32 scalar (the typer then returns false, for
\* this and for every other operation).
DragnnTyper_InferTypes(s) ==
  IF s.type = "DragnnEmbeddingInitializer" /\ Outdegree(s) = 1
  THEN SetOutput(s, 0, [Output(s, 0) EXCEPT !.type = "DT_INT32",
                                            !.dims = <<>>])
  ELSE s

\* Type inference runs on the operation before a kernel is selected for it.
InferTypes ==
  /\ pc = "infer"
  /\ step' = DragnnTyper_InferTypes(step)
  /\ initial' = [initial EXCEPT !.step = step']
  /\ pc' = "select"
  /\ UNCHANGED <<avx, mem, bindings, kernel, reg, ymm, alloc, result, iters,
                 overrun>>

\* Kernel::Adjust of each kernel.
DragnnCollect_Adjust(s) ==
  LET s1 == SetInput(s, 1, [Input(s, 1) EXCEPT !.order = "ROW_MAJOR"])
  IN  SetOutput(s1, 0, [Output(s1, 0) EXCEPT !.order = "ROW_MAJOR"])

DragnnLookup_Adjust(s) ==
  SetInput(s, 1, [Input(s, 1) EXCEPT !.order = "ROW_MAJOR"])

DragnnLookupSingle_Adjust(s) ==
  LET s1 == SetOutput(s, 0, [Output(s, 0) EXCEPT !.ref = TRUE, !.link = "M"])
  IN  SetInput(s1, 1, [Input(s1, 1) EXCEPT !.order = "ROW_MAJOR"])

DragnnLookupUnrolled_Adjust(s) ==
  LET align == kBlockSize * SizeOfFloat
      s1 == SetInput(s, 1, [Input(s, 1) EXCEPT !.align = align,
                                               !.order = "ROW_MAJOR"])
  IN  SetOutput(s1, 0, [Output(s1, 0) EXCEPT !.align = align])

NoOpReshape_Adjust(s, granted) ==
  LET y == [Output(s, 0) EXCEPT !.ref = Input(s, 0).ref]
  IN  SetOutput(s, 0, IF granted THEN [y EXCEPT !.shared = "x"] ELSE y)

Adjust ==
  /\ pc = "adjust"
  /\ \E granted \in BOOLEAN :
       /\ step' =
            CASE kernel = "DragnnCollect" -> DragnnCollect_Adjust(step)
              [] kernel = "DragnnLookup" -> DragnnLookup_Adjust(step)
              [] kernel = "DragnnLookupSingle" -> DragnnLookupSingle_Adjust(step)
              [] kernel = "DragnnLookupUnrolled" ->
                   DragnnLookupUnrolled_Adjust(step)
              [] kernel = "NoOpReshape" -> NoOpReshape_Adjust(step, granted)
              [] OTHER -> step
       \* CHECK(step->AllowInPlace(0, 0))
       /\ pc' = IF kernel = "NoOpReshape" /\ ~granted THEN "abort"
                ELSE "generate"
  /\ UNCHANGED <<avx, initial, mem, bindings, kernel, reg, ymm, alloc,
                 result, iters, overrun>>

\* The fatal CHECKs of Generate.
GenerateChecks(k, s) ==
  CASE k = "DragnnLookupSingle" -> ~Input(s, 0).ref
    [] k = "DragnnConcat" -> ConcatBytes(s, Indegree(s) - 1) = Size(Output(s, 0))
    [] k = "NoOpReshape" -> Output(s, 0).shared = "x"
    [] OTHER -> TRUE

\* The SIMD registers Generate acquires: mm.allocx(), mm.allocy().
SIMDAcquired(k, s) ==
  CASE k = "DragnnLookup" -> 1
    [] k = "DragnnLookupUnrolled" -> Blocks(s)
    [] OTHER -> 0

Generate ==
  /\ pc = "generate"
  /\ alloc' = SIMDAcquired(kernel, step)
  /\ pc' = IF ~GenerateChecks(kernel, step) THEN "abort"
           ELSE IF mem = NoCompileMemory THEN "emitted"
                ELSE Entry(kernel)
  /\ UNCHANGED <<step, avx, initial, mem, bindings, kernel, reg, ymm, result,
                 iters, overrun>>

(***************************************************************************)
(* Running the generated code.                                             *)
(***************************************************************************)
\* The addresses the instructions at the label read or write.
Accesses ==
  CASE pc = "lookup_l1" -> {Operand(reg.input, reg.col * 4)}
    [] pc = "lookup_l3" ->
         {Operand(reg.output, reg.row * 4), Operand(reg.acc, reg.row * 4)}
    [] pc = "unrolled_l1" -> {Operand(reg.input, reg.col * 4)}
    [] pc = "unrolled_l2" ->
         LET a == RowAddress(reg.embeddings, reg.acc, Stride0(Input(step, 1)))
         IN  {Operand(a, LaneDisp(i, j)) :
                i \in 0..(Len(ymm) - 1), j \in 0..(kBlockSize - 1)}
    [] pc = "collect_load" ->
         {IF Dim(Input(step, 0), 1) = 1 THEN reg.input
          ELSE Operand(reg.input, reg.index * 4)}
    [] pc = "collect_copy" ->
         LET a == RowAddress(reg.activations, reg.acc,
                             Stride0(Input(step, 1)))
             words == 0..(Dim(Input(step, 1), 1) - 1)
         IN  {Operand(reg.output, n * SizeOfFloat) : n \in words}
               \cup {Operand(a, n * SizeOfFloat) : n \in words}
    [] pc = "collect_l2" ->
         IF CollectSetsIndicator(reg.acc)
         THEN {Operand(reg.output, Dim(Input(step, 1), 1) * SizeOfFloat)}
         ELSE {}
    [] OTHER -> {}

\* Whether the next instructions stay inside the tensors they address.
AccessOk == \A a \in Accesses : InBounds(mem, a)

\* An access around the tensors may hit unmapped memory.
Fault ==
  /\ pc \in CodeLabels(kernel)
  /\ \E a \in Accesses : ~Mapped(mem, a)
  /\ pc' = "fault"
  /\ UNCHANGED <<step, avx, initial, mem, bindings, kernel, reg, ymm, alloc,
                 result, iters, overrun>>

OutName(k) ==
  CASE k = "DragnnLookupSingle" -> "vref"
    [] k = "DragnnCollect" -> "R"
    [] k = "DragnnConcat" -> "y"
    [] OTHER -> "v"

\* The run is over: keep the output, and start again from the same step and
\* the same instance memory for the next kernel.
Finish ==
  /\ pc = "done" /\ kernel # NoKernel
  /\ result' = [result EXCEPT ![kernel] = [ran |-> TRUE,
                                            out |-> mem[OutName(kernel)]]]
  /\ step' = initial.step
  /\ mem' = initial.mem
  /\ kernel' = NoKernel
  /\ pc' = "select"
  /\ reg' = NoRegs
  /\ ymm' = <<>>
  /\ alloc' = 0
  /\ iters' = NoIters
  /\ overrun' = 0
  /\ UNCHANGED <<avx, initial, bindings>>

(***************************************************************************)
(* Inputs.                                                                 *)
(***************************************************************************)
\* Feature ids: valid row indices, -1, and values below -1.
FeatureIds == (0 - 1 - AbsentDepth)..VocabSize

EmbeddingRows == VocabSize + 1

\* The float stored at row r, column c of the embedding matrix of a seed.
EmbeddingValue(seed, r, c) == (seed + 1) * (r + 1) + (c % 2)

\* The embedding matrix, row-major, as words.
EmbeddingWords(seed, rows, dims) ==
  [n \in 1..(rows * dims) |->
     FloatBits(EmbeddingValue(seed, (n - 1) \div dims, (n - 1) % dims))]

Fill(n, w) == [j \in 1..n |-> w]

\* The orders in which the tensors of a set of names may lie in memory.
Orders(names) ==
  {q \in [1..Cardinality(names) -> names] :
     \A i, j \in 1..Cardinality(names) : q[i] = q[j] => i = j}

\* What the words around the tensors may hold: a feature id of any kind, a
\* row index past the matrix, or a float.
PadWords ==
  ((0 - 1 - AbsentDepth)..(VocabSize + 1))
    \cup {FloatBits(k) : k \in 1..(MaxPrior + 1)}

NullAddr == Addr("null", 0)

NoResult == [k \in Kernels |-> NotRun]

Step(type, inputs, outputs) ==
  [type |-> type, inputs |-> inputs, outputs |-> outputs]

(***************************************************************************)
(* The Lookup kernels, each run on the same steps and instance memory.     *)
(***************************************************************************)
LookupDims == {0, 1, kBlockSize, 2 * kBlockSize}

LookupStep(n, d) ==
  Step("Lookup",
       <<Tensor("DT_INT32", <<1, n>>), Tensor("DT_FLOAT", <<EmbeddingRows, d>>)>>,
       <<Tensor("DT_FLOAT", <<1, d>>)>>)

LookupMemory(ids, seed, d, prior, order, pad) ==
  [f |-> ids,
   M |-> EmbeddingWords(seed, EmbeddingRows, d),
   v |-> Fill(d, FloatBits(prior)),
   vref |-> <<NullAddr>>,
   gap |-> <<pad>>,
   order |-> order,
   pad |-> pad]

\* Where the tensors lie shows only in a run that leaves a tensor, which
\* takes a step without feature ids or without embedding dimensions (the
\* feature ids drawn are rows of the matrix, -1 or absent): these steps are
\* drawn in every order and with every pad word, and the other steps, whose
\* runs stay inside their tensors, in one order.
Arranged(n, d) == n = 0 \/ d = 0

LookupOrders(n, d) ==
  IF Arranged(n, d) THEN Orders({"f", "M", "v", "gap"})
  ELSE {<<"f", "M", "v">>}

Pads(n, d) == IF Arranged(n, d) THEN PadWords ELSE {0}

InitLookup ==
  /\ \E n \in 0..MaxFeatures, d \in LookupDims, seed \in 0..MaxSeed,
        prior \in 0..MaxPrior :
       \E ids \in [1..n -> FeatureIds], order \in LookupOrders(n, d),
          pad \in Pads(n, d) :
          /\ step = LookupStep(n, d)
          /\ mem = LookupMemory(ids, seed, d, prior, order, pad)
  /\ avx \in BOOLEAN
  /\ initial = [step |-> step, mem |-> mem]
  /\ bindings = <<>>
  /\ kernel = NoKernel
  /\ pc = "select"
  /\ reg = NoRegs
  /\ ymm = <<>>
  /\ alloc = 0
  /\ result = NoResult
  /\ iters = NoIters
  /\ overrun = 0

NextLookup ==
  \/ \E k \in Kernels : Compile(k)
  \/ Adjust
  \/ Generate
  \/ LookupEntry
  \/ LookupL1
  \/ LookupL2
  \/ LookupL3
  \/ LookupL4
  \/ UnrolledEntry
  \/ UnrolledL1
  \/ UnrolledL2
  \/ UnrolledL3
  \/ UnrolledStore
  \/ SingleEntry
  \/ SingleStore
  \/ Fault
  \/ Finish

SpecLookup == InitLookup /\ [][NextLookup]_vars

\* The single-feature kernel alone on the same steps.
NextSingle ==
  \/ Compile("DragnnLookupSingle")
  \/ Adjust
  \/ Generate
  \/ SingleEntry
  \/ SingleStore
  \/ Finish

SpecSingle == InitLookup /\ [][NextSingle]_vars

(***************************************************************************)
(* The Collect kernel, on steps it supports and on steps it rejects.       *)
(***************************************************************************)
Types == {"DT_INT32", "DT_FLOAT"}
CollectDims == {0, 1, 2}

\* Input and output lists of the arities a step may come with: the kernel's
\* own, an input short, an input more, an output more.
Arities(in, out, extra) ==
  {[inputs |-> in, outputs |-> out],
   [inputs |-> SubSeq(in, 1, 1), outputs |-> out],
   [inputs |-> in \o <<extra>>, outputs |-> out],
   [inputs |-> in, outputs |-> out \o out]}

\* Shapes of the feature tensor: 1 x n, n x 1, and 1 x n x 1 (no Supports
\* tests the rank of f; all of them read f->dim(0) and f->dim(1) at most).
FeatureShapes == UNION {{<<1, n>>, <<n, 1>>, <<1, n, 1>>} : n \in 0..MaxFeatures}

CollectStep(a) == Step("Collect", a.inputs, a.outputs)

CollectMemory(ids, seed, d, rows, order, pad) ==
  [f |-> ids,
   M |-> EmbeddingWords(seed, EmbeddingRows, d),
   R |-> Fill(rows * (d + 1), FloatBits(0)),
   gap |-> <<pad>>,
   order |-> order,
   pad |-> pad]

\* A collect run leaves its tensors only for a batch of no feature ids.
CollectOrders(n) ==
  IF n = 0 THEN Orders({"f", "M", "R", "gap"}) ELSE {<<"f", "M", "R">>}

NoMemory == [f |-> <<>>, M |-> <<>>, R |-> <<>>]

InitCollect ==
  /\ \E ft \in Types, mt \in Types, rt \in Types, fd \in FeatureShapes,
        d \in CollectDims, b \in 0..MaxFeatures, e \in 0..1,
        mrank \in 2..3, rrank \in 2..3 :
       LET md == IF mrank = 2 THEN <<EmbeddingRows, d>>
                 ELSE <<EmbeddingRows, d, 1>>
           rd == IF rrank = 2 THEN <<b, d + e>> ELSE <<b, d + e, 1>>
       IN  \E a \in Arities(<<Tensor(ft, fd), Tensor(mt, md)>>,
                             <<Tensor(rt, rd)>>, Tensor(mt, md)) :
              step = CollectStep(a)
  /\ IF DragnnCollect_Supports(step)
     THEN \E seed \in 0..MaxSeed :
            \E ids \in [1..Dim(Input(step, 0), 1) -> FeatureIds],
               order \in CollectOrders(Dim(Input(step, 0), 1)),
               pad \in Pads(Dim(Input(step, 0), 1), 1) :
               mem = CollectMemory(ids, seed, Dim(Input(step, 1), 1),
                                   Dim(Output(step, 0), 0), order, pad)
     ELSE mem = NoMemory
  /\ avx = TRUE
  /\ initial = [step |-> step, mem |-> mem]
  /\ bindings = <<>>
  /\ kernel = NoKernel
  /\ pc = "select"
  /\ reg = NoRegs
  /\ ymm = <<>>
  /\ alloc = 0
  /\ result = NoResult
  /\ iters = NoIters
  /\ overrun = 0

NextCollect ==
  \/ \E k \in Kernels : Compile(k)
  \/ Adjust
  \/ Generate
  \/ CollectEntry
  \/ CollectLoad
  \/ CollectCopy
  \/ CollectL2
  \/ CollectL3
  \/ Fault
  \/ Finish

SpecCollect == InitCollect /\ [][NextCollect]_vars

(***************************************************************************)
(* The Concat kernel, on steps it supports and on steps it rejects.        *)
(***************************************************************************)
MaxInputs == 3        \* data inputs of a ConcatV2 step: 0..MaxInputs
MaxInputWords == 2    \* floats per data input: 0..MaxInputWords
MaxAxis == 2          \* value of the axis input: 0..MaxAxis

Axis(value) == [Tensor("DT_INT32", <<>>) EXCEPT !.value = value]

\* Word j (from 1) of data input i (from 0).
ConcatWord(seed, i, j) == FloatBits(seed + 3 * i + j)

ConcatInput(seed, sizes, i) ==
  IF i < Len(sizes) THEN [j \in 1..sizes[i + 1] |-> ConcatWord(seed, i, j)]
  ELSE <<>>

ConcatMemory(seed, sizes, outwords) ==
  [x0 |-> ConcatInput(seed, sizes, 0), x1 |-> ConcatInput(seed, sizes, 1),
   x2 |-> ConcatInput(seed, sizes, 2), x3 |-> ConcatInput(seed, sizes, 3),
   x4 |-> ConcatInput(seed, sizes, 4),
   y |-> Fill(outwords, FloatBits(0)),
   order |-> <<"x0", "x1", "x2", "x3", "x4", "y">>,
   pad |-> 0]

RECURSIVE SeqSum(_)
SeqSum(q) == IF q = <<>> THEN 0 ELSE Head(q) + SeqSum(Tail(q))

InitConcat ==
  /\ \E nd \in 0..MaxInputs, axis \in 0..MaxAxis, delta \in {0 - 1, 0, 1},
        outs \in 1..2, seed \in 0..MaxSeed :
       \E sizes \in [1..nd -> 0..MaxInputWords] :
          LET outwords == SeqSum(sizes) + delta
              y == Tensor("DT_FLOAT", <<outwords>>)
          IN  /\ outwords >= 0
              /\ step = Step("ConcatV2",
                             [i \in 1..nd |-> Tensor("DT_FLOAT", <<sizes[i]>>)]
                               \o <<Axis(axis)>>,
                             IF outs = 1 THEN <<y>> ELSE <<y, y>>)
              /\ mem = ConcatMemory(seed, sizes, outwords)
  /\ avx = TRUE
  /\ initial = [step |-> step, mem |-> mem]
  /\ bindings = <<>>
  /\ kernel = NoKernel
  /\ pc = "select"
  /\ reg = NoRegs
  /\ ymm = <<>>
  /\ alloc = 0
  /\ result = NoResult
  /\ iters = NoIters
  /\ overrun = 0

NextConcat ==
  \/ \E k \in Kernels : Compile(k)
  \/ Adjust
  \/ Generate
  \/ ConcatCopy
  \/ Finish

SpecConcat == InitConcat /\ [][NextConcat]_vars

(***************************************************************************)
(* The compiler: selection among the registered kernels, Adjust and the    *)
(* emission-time part of Generate, on Lookup and Reshape steps of any      *)
(* shape.                                                                  *)
(***************************************************************************)
\* Embedding dimensions around the block size and around the cap.
WideDims ==
  {0, 1, kBlockSize \div 2, kBlockSize, kBlockSize + kBlockSize \div 2,
   2 * kBlockSize, kMaxEmbeddingDim - kBlockSize, kMaxEmbeddingDim - 1,
   kMaxEmbeddingDim, kMaxEmbeddingDim + 1, kMaxEmbeddingDim + kBlockSize}

ReshapeShapes == {<<2>>, <<4>>, <<2, 2>>, <<1, 2>>, <<>>}
MaxConsumers == 2     \* consumers of the reshaped tensor: 0..MaxConsumers

\* The element types of f, M and v: the kernels' own, or one of them off.
LookupTypes ==
  {<<"DT_INT32", "DT_FLOAT", "DT_FLOAT">>, <<"DT_FLOAT", "DT_FLOAT", "DT_FLOAT">>,
   <<"DT_INT32", "DT_INT32", "DT_FLOAT">>, <<"DT_INT32", "DT_FLOAT", "DT_INT32">>}

\* The output's shape for an embedding dimension d: 1 x d, or off by a
\* column, a row or a rank.
OutputShapes(d) == {<<1, d>>, <<1, d + 1>>, <<2, d>>, <<1, d, 1>>}

InitCompileLookup ==
  /\ \E t \in LookupTypes, fd \in FeatureShapes, fref \in BOOLEAN,
        d \in WideDims, mrank \in 2..3 :
       \E vd \in OutputShapes(d) :
          LET f == [Tensor(t[1], fd) EXCEPT !.ref = fref]
              md == IF mrank = 2 THEN <<EmbeddingRows, d>>
                    ELSE <<EmbeddingRows, d, 1>>
          IN  \E a \in Arities(<<f, Tensor(t[2], md)>>, <<Tensor(t[3], vd)>>,
                                Tensor(t[2], md)) :
                 step = Step("Lookup", a.inputs, a.outputs)
  /\ avx \in BOOLEAN

InitCompileReshape ==
  /\ \E xt \in Types, yt \in Types, xd \in ReshapeShapes, yd \in ReshapeShapes,
        xref \in BOOLEAN, consumers \in 0..MaxConsumers :
       LET x == [Tensor(xt, xd) EXCEPT !.ref = xref, !.consumers = consumers]
       IN  \E a \in Arities(<<x, Tensor("DT_INT32", <<Len(yd)>>)>>,
                             <<Tensor(yt, yd)>>, Tensor("DT_INT32", <<>>)) :
              step = Step("Reshape", a.inputs, a.outputs)
  /\ avx = TRUE

InitCompileInitializer ==
  /\ \E t \in Types, d \in ReshapeShapes \cup {<<1, kBlockSize>>},
        outs \in 0..2 :
       step = Step("DragnnEmbeddingInitializer", <<>>,
                   [i \in 1..outs |-> Tensor(t, d)])
  /\ avx = TRUE

InitCompile ==
  /\ InitCompileLookup \/ InitCompileReshape \/ InitCompileInitializer
  /\ mem = NoCompileMemory
  /\ initial = [step |-> step, mem |-> mem]
  /\ bindings = <<>>
  /\ kernel = NoKernel
  /\ pc = "infer"
  /\ reg = NoRegs
  /\ ymm = <<>>
  /\ alloc = 0
  /\ result = NoResult
  /\ iters = NoIters
  /\ overrun = 0

NextCompile ==
  \/ InferTypes
  \/ Select
  \/ Bind
  \/ Adjust
  \/ Generate

SpecCompile == InitCompile /\ [][NextCompile]_vars

(***************************************************************************)
(* Everything together.                                                    *)
(***************************************************************************)
Init == InitLookup \/ InitCollect \/ InitConcat \/ InitCompile

Next ==
  \/ InferTypes
  \/ Select
  \/ Bind
  \/ \E k \in Kernels : Compile(k)
  \/ Adjust
  \/ Generate
  \/ LookupEntry
  \/ LookupL1
  \/ LookupL2
  \/ LookupL3
  \/ LookupL4
  \/ UnrolledEntry
  \/ UnrolledL1
  \/ UnrolledL2
  \/ UnrolledL3
  \/ UnrolledStore
  \/ SingleEntry
  \/ SingleStore
  \/ CollectEntry
  \/ CollectLoad
  \/ CollectCopy
  \/ CollectL2
  \/ CollectL3
  \/ ConcatCopy
  \/ Fault
  \/ Finish

Spec == Init /\ [][Next]_vars

(***************************************************************************)
(* Reference semantics of a lookup, stated on the inputs.                  *)
(***************************************************************************)
NoRow == 0 - 1

\* The embedding row a feature id stands for: id >= 0 is row id, -1 is the
\* trailing OOV row, anything below -1 is an absent feature.
ResolvedRow(id, rows) ==
  IF id >= 0 THEN id ELSE IF id = 0 - 1 THEN rows - 1 ELSE NoRow

\* The sum over the feature ids of column c (from 0) of their resolved rows.
RECURSIVE SumOfRows(_, _, _, _, _)
SumOfRows(ids, M, rows, dims, c) ==
  IF ids = <<>> THEN 0
  ELSE LET r == ResolvedRow(Head(ids), rows)
       IN  (IF r = NoRow THEN 0 ELSE FloatValue(M[r * dims + c + 1]))
           + SumOfRows(Tail(ids), M, rows, dims, c)

NumFeatures == Dim(initial.step.inputs[1], 1)
EmbeddingDims == Dim(initial.step.inputs[2], 1)
ExpectedSum(c) ==
  SumOfRows(initial.mem.f, initial.mem.M, Dim(initial.step.inputs[2], 0),
            EmbeddingDims, c)

(***************************************************************************)
(* Claims.                                                                 *)
(***************************************************************************)
\* C1: when the code of the scalar DragnnLookup has run on N >= 1 feature
\* ids, whatever the output buffer held before, every element of the output
\* is the sum of that element over the resolved embedding rows (id >= 0 is
\* row id, -1 is the OOV row, below -1 adds nothing).
C1_ScalarOutputIsSumOfRows ==
  (kernel = "DragnnLookup" /\ pc = "done" /\ NumFeatures >= 1) =>
     \A c \in 1..EmbeddingDims : FloatValue(mem.v[c]) = ExpectedSum(c - 1)

\* The scalar kernel accumulates into what the output buffer held before.
ScalarOutputIsPriorPlusSum ==
  (kernel = "DragnnLookup" /\ pc = "done") =>
     \A c \in 1..EmbeddingDims :
        FloatValue(mem.v[c]) = FloatValue(initial.mem.v[c]) + ExpectedSum(c - 1)

\* The unrolled kernel clears its running sum first.
UnrolledOutputIsSumOfRows ==
  (kernel = "DragnnLookupUnrolled" /\ pc = "done") =>
     \A c \in 1..EmbeddingDims : FloatValue(mem.v[c]) = ExpectedSum(c - 1)

\* C2: on the same step, feature ids, embedding matrix and initial instance
\* buffer, the code of DragnnLookup and the code of DragnnLookupUnrolled
\* leave the same values in the output vector.
C2_ScalarAndUnrolledAgree ==
  (result["DragnnLookup"].ran /\ result["DragnnLookupUnrolled"].ran) =>
     result["DragnnLookup"].out = result["DragnnLookupUnrolled"].out

\* C3: for a single feature id f >= 0 or f = -1, the code of
\* DragnnLookupSingle stores base(M) + row_index(f) * M.stride(0) at the
\* output's instance slot, row_index(-1) being M.dim(0) - 1, and writes
\* nothing else.
C3_SingleStoresRowAddress ==
  (kernel = "DragnnLookupSingle" /\ pc = "done") =>
     LET f == initial.mem.f[1]
         M == initial.step.inputs[2]
         row_index == IF f >= 0 THEN f ELSE Dim(M, 0) - 1
     IN  (f >= 0 \/ f = 0 - 1) =>
            /\ mem.vref = <<Addr("M", row_index * Stride0(M))>>
            /\ [mem EXCEPT !.vref = initial.mem.vref] = initial.mem

\* The single-feature kernel has run on an out-of-vocabulary feature.
C3_Witness ==
  /\ kernel = "DragnnLookupSingle" /\ pc = "done"
  /\ initial.mem.f[1] = 0 - 1
  /\ EmbeddingDims > 0

\* The inputs of a Collect step.
Batch == Dim(initial.step.inputs[1], 1)
OutputRows == Dim(initial.step.outputs[1], 0)
OutputCols == Dim(initial.step.outputs[1], 1)

\* C4: from a zero-initialized output and a batch of at least one feature
\* id, when the code of DragnnCollect has run, row r of the output holds
\* embedding row id[r] in its first M.dim(1) columns when id[r] >= 0 and
\* zeros otherwise, and its trailing column is 1.0 exactly when id[r] = -1
\* and 0.0 otherwise; while the code runs, the output pointer is one output
\* row stride further for each feature done.
C4_CollectRows ==
  (kernel = "DragnnCollect" /\ Batch >= 1) =>
     /\ pc \in {"collect_load", "collect_copy", "collect_l2", "collect_l3"} =>
          reg.output = Addr("R", reg.index * Stride0(initial.step.outputs[1]))
     /\ pc = "done" =>
          \A r \in 0..(Batch - 1) :
             LET id == initial.mem.f[r + 1]
             IN  /\ \A c \in 0..(EmbeddingDims - 1) :
                       mem.R[r * OutputCols + c + 1] =
                         IF id >= 0 THEN initial.mem.M[id * EmbeddingDims + c + 1]
                         ELSE FloatBits(0)
                 /\ FloatValue(mem.R[r * OutputCols + EmbeddingDims + 1]) =
                      IF id = 0 - 1 THEN 1 ELSE 0

\* The collect code has run on a batch with an OOV feature, an absent
\* feature or a known feature in the first row and another in the last.
C4_Witness ==
  /\ kernel = "DragnnCollect" /\ pc = "done"
  /\ Batch >= 2 /\ EmbeddingDims >= 1
  /\ initial.mem.f[1] = 0 - 1
  /\ initial.mem.f[Batch] >= 0

\* What the code of DragnnCollect::Supports accepts, stated positively: the
\* feature tensor is int32 with dim(0) = 1 and dim(1) = the output's rows,
\* of whatever rank.
CollectApplicable(s) ==
  /\ Indegree(s) = 2 /\ Outdegree(s) = 1
  /\ Input(s, 0).type = "DT_INT32"
  /\ Dim(Input(s, 0), 0) = 1
  /\ Dim(Input(s, 0), 1) = Dim(Output(s, 0), 0)
  /\ Input(s, 1).type = "DT_FLOAT" /\ Rank(Input(s, 1)) = 2
  /\ Output(s, 0).type = "DT_FLOAT" /\ Rank(Output(s, 0)) = 2
  /\ Dim(Output(s, 0), 1) = Dim(Input(s, 1), 1) + 1

\* What the claim says it accepts: the feature tensor is an int32 matrix
\* shaped batch x 1.
CollectApplicableBatchByOne(s) ==
  /\ Indegree(s) = 2 /\ Outdegree(s) = 1
  /\ Input(s, 0).type = "DT_INT32" /\ Rank(Input(s, 0)) = 2
  /\ Dim(Input(s, 0), 0) = Dim(Output(s, 0), 0)
  /\ Dim(Input(s, 0), 1) = 1
  /\ Input(s, 1).type = "DT_FLOAT" /\ Rank(Input(s, 1)) = 2
  /\ Output(s, 0).type = "DT_FLOAT" /\ Rank(Output(s, 0)) = 2
  /\ Dim(Output(s, 0), 1) = Dim(Input(s, 1), 1) + 1

\* The rows the loop of DragnnCollect processes are the output's rows: the
\* body of the loop never runs more often, and has run exactly that often
\* when the code is done.
CollectProcessesBatch ==
  kernel = "DragnnCollect" =>
     /\ iters.feature <= OutputRows
     /\ pc = "done" => iters.feature = OutputRows

\* C8: DragnnCollect.Supports accepts exactly the steps with 2 inputs and 1
\* output whose feature-id input is an int32 matrix shaped batch x 1
\* (dim(0) = batch = output rows, dim(1) = 1), whose embedding matrix is a
\* rank-2 float and whose output is a rank-2 float with M.dim(1) + 1 columns;
\* the loop processes batch rows.
C8_CollectSupportsBatchByOne ==
  /\ DragnnCollect_Supports(initial.step) <=>
       CollectApplicableBatchByOne(initial.step)
  /\ CollectProcessesBatch

\* What DragnnCollect.Supports does decide: the same with the feature-id
\* input shaped 1 x batch (dim(0) = 1, dim(1) = batch = output rows), of
\* any rank.
CollectSupportsOneByBatch ==
  DragnnCollect_Supports(initial.step) <=> CollectApplicable(initial.step)

\* Supports accepts feature tensors that are no matrix.
CollectAcceptsMatricesOnly ==
  DragnnCollect_Supports(initial.step) => Rank(initial.step.inputs[1]) = 2

\* The loop processes the output's rows when there is at least one.
CollectProcessesNonEmptyBatch ==
  OutputRows >= 1 => CollectProcessesBatch

\* A feature tensor shaped 1 x 2 x 1 has been accepted and collected.
CollectRanOnRankThree ==
  /\ kernel = "DragnnCollect" /\ pc = "done"
  /\ initial.step.inputs[1].dims = <<1, 2, 1>>
  /\ iters.feature = 2

\* The loop over a batch of no rows has run its body.
CollectLoopOverNoRows ==
  /\ kernel = "DragnnCollect" /\ OutputRows = 0
  /\ DragnnCollect_Supports(initial.step)
  /\ iters.feature = 1

\* The data inputs of a ConcatV2 step: all inputs but the trailing axis.
DataInputs == Indegree(initial.step) - 1

\* The words of the first n data inputs, one input after the other.
RECURSIVE Concatenation(_, _)
Concatenation(m, n) ==
  IF n = 0 THEN <<>> ELSE Concatenation(m, n - 1) \o m[InputName(n - 1)]

\* C5: when the code of DragnnConcat has run on a step it accepted, the
\* output holds the data inputs' contents one after the other in input
\* order (the axis input is not copied), and the bytes copied are the
\* output's declared size.
C5_ConcatOutput ==
  (kernel = "DragnnConcat" /\ pc = "done") =>
     /\ mem.y = Concatenation(initial.mem, DataInputs)
     /\ reg.offset = Size(initial.step.outputs[1])
     /\ \A i \in 0..(DataInputs - 1) : mem[InputName(i)] = initial.mem[InputName(i)]

\* The concat code has run on two or more non-empty data inputs.
C5_Witness ==
  /\ kernel = "DragnnConcat" /\ pc = "done"
  /\ DataInputs >= 2
  /\ \A i \in 0..(DataInputs - 1) : Len(initial.mem[InputName(i)]) >= 1

\* C7: DragnnConcat.Supports accepts only steps with at least 2 data inputs
\* and a trailing axis input of value 1, exactly one output, and an output
\* byte size equal to the sum of the data inputs' byte sizes.
C7_ConcatSupportsOnlyMatchingSteps ==
  DragnnConcat_Supports(initial.step) =>
     /\ DataInputs >= 2
     /\ Input(initial.step, DataInputs).value = 1
     /\ Outdegree(initial.step) = 1
     /\ Size(initial.step.outputs[1]) = ConcatBytes(initial.step, DataInputs)

\* What DragnnConcat.Supports does check: an axis of 1 after at least one
\* other input, and one output.
ConcatSupportsAxisAndArity ==
  DragnnConcat_Supports(initial.step) <=>
     /\ DataInputs >= 1
     /\ Input(initial.step, DataInputs).value = 1
     /\ Outdegree(initial.step) = 1

\* The place of a kernel in the registration order.
Registered(k) ==
  CHOOSE i \in 1..Len(RegisterDragnnKernels) : RegisterDragnnKernels[i] = k

SupportedBy(k) == Operation(k) = initial.step.type /\ Supports(k, initial.step, avx)

\* The kernel the claim expects for a Lookup step: DragnnLookupSingle if its
\* Supports holds, else DragnnLookupUnrolled if its Supports holds, else
\* DragnnLookup if its Supports holds, else none.
ExpectedLookupKernel ==
  IF DragnnLookupSingle_Supports(initial.step) THEN "DragnnLookupSingle"
  ELSE IF DragnnLookupUnrolled_Supports(initial.step, avx)
       THEN "DragnnLookupUnrolled"
  ELSE IF DragnnLookup_Supports(initial.step) THEN "DragnnLookup"
  ELSE NoKernel

\* C6: RegisterDragnnKernels registers DragnnLookupSingle, then
\* DragnnLookupUnrolled, then DragnnLookup, and no other kernel for Lookup;
\* every selection for a Lookup step, the first and each repetition on the
\* same step, registry and CPU, binds the first of these three whose Supports
\* holds for the step; so a step with exactly one feature id that all three
\* accept is bound to DragnnLookupSingle.
C6_SelectionIsFirstRegistered ==
  /\ Registered("DragnnLookupSingle") < Registered("DragnnLookupUnrolled")
  /\ Registered("DragnnLookupUnrolled") < Registered("DragnnLookup")
  /\ \A k \in Kernels :
        Operation(k) = "Lookup" <=>
          k \in {"DragnnLookupSingle", "DragnnLookupUnrolled", "DragnnLookup"}
  /\ initial.step.type = "Lookup" =>
        \A i \in 1..Len(bindings) :
           /\ bindings[i] = ExpectedLookupKernel
           /\ ( /\ SupportedBy("DragnnLookupSingle")
                /\ SupportedBy("DragnnLookupUnrolled")
                /\ SupportedBy("DragnnLookup")
                /\ Elements(Input(initial.step, 0)) = 1 )
              => bindings[i] = "DragnnLookupSingle"

\* A one-feature Lookup step that all three kernels accept has been selected
\* for twice.
C6_Witness ==
  /\ Len(bindings) = 2
  /\ initial.step.type = "Lookup"
  /\ Elements(Input(initial.step, 0)) = 1
  /\ SupportedBy("DragnnLookupSingle")
  /\ SupportedBy("DragnnLookupUnrolled")
  /\ SupportedBy("DragnnLookup")
  /\ bindings[1] = "DragnnLookupSingle"
  /\ bindings[2] = "DragnnLookupSingle"

\* Selections for steps of the other operations bind a kernel of the step's
\* operation that supports the step, or none when no kernel does.
SelectionBindsSupportingKernel ==
  \A i \in 1..Len(bindings) :
     /\ bindings[i] = NoKernel => \A k \in Kernels : ~SupportedBy(k)
     /\ bindings[i] # NoKernel => SupportedBy(bindings[i])

ReshapeTypesAndCounts(s) ==
  /\ Input(s, 0).type = Output(s, 0).type
  /\ Elements(Input(s, 0)) = Elements(Output(s, 0))
  /\ Input(s, 0).consumers = 1

\* C9 (as claimed): NoOpReshape.Supports accepts exactly the steps with
\* exactly one input and one output of the same element type and element
\* count, the input having exactly one consumer.
C9_ReshapeSupportsOneInput ==
  initial.step.type = "Reshape" =>
     ( NoOpReshape_Supports(initial.step) <=>
         /\ Indegree(initial.step) = 1 /\ Outdegree(initial.step) = 1
         /\ ReshapeTypesAndCounts(initial.step) )

\* C9 (amended): NoOpReshape.Supports accepts exactly the steps with exactly
\* two inputs (the tensor and the new shape) and one output, where input 0
\* and the output have the same element type and element count and input 0
\* has exactly one consumer; a step with any other number of inputs is
\* rejected, and only accepted steps are bound to NoOpReshape.
C9_ReshapeSupportsTwoInputs ==
  initial.step.type = "Reshape" =>
     /\ NoOpReshape_Supports(initial.step) <=>
          /\ Indegree(initial.step) = 2 /\ Outdegree(initial.step) = 1
          /\ ReshapeTypesAndCounts(initial.step)
     /\ Indegree(initial.step) # 2 => ~NoOpReshape_Supports(initial.step)
     /\ \A i \in 1..Len(bindings) :
           bindings[i] = "NoOpReshape" <=>
             /\ Indegree(initial.step) = 2 /\ Outdegree(initial.step) = 1
             /\ ReshapeTypesAndCounts(initial.step)

\* A two-input reshape of a 2 x 2 tensor into 4 elements has been bound to
\* NoOpReshape and adjusted.
C9_Witness ==
  /\ kernel = "NoOpReshape" /\ pc = "generate"
  /\ Indegree(initial.step) = 2
  /\ Input(initial.step, 0).dims = <<2, 2>>
  /\ Output(initial.step, 0).dims = <<4>>

\* C10: a step DragnnLookupUnrolled.Supports accepts is accepted by
\* DragnnLookup.Supports, has AVX enabled and an embedding dimension that
\* is a multiple of 8 and at most 128; and once Generate has acquired its
\* ymm registers for such a step, they are embedding dimension / 8 and at
\* most the 16 there are.
C10_UnrolledFitsRegisters ==
  initial.step.type = "Lookup" =>
     /\ DragnnLookupUnrolled_Supports(initial.step, avx) =>
          /\ DragnnLookup_Supports(initial.step)
          /\ avx
          /\ Dim(Input(initial.step, 1), 1) % 8 = 0
          /\ Dim(Input(initial.step, 1), 1) <= 128
     /\ (kernel = "DragnnLookupUnrolled" /\ pc \notin {"select", "adjust", "generate"}) =>
          /\ alloc * 8 = Dim(Input(initial.step, 1), 1)
          /\ alloc <= NumYMMRegisters

\* The unrolled kernel has been bound to a step of the largest dimension and
\* has acquired every ymm register.
C10_Witness ==
  /\ kernel = "DragnnLookupUnrolled" /\ pc = "emitted"
  /\ Dim(Input(initial.step, 1), 1) = 128
  /\ alloc = NumYMMRegisters

(***************************************************************************)
(* Feature-id resolution in the generated code.                            *)
(***************************************************************************)
\* The feature id the code has in hand: the one at the loop's column (the
\* scalar and unrolled lookups), the only one (the single lookup), or the
\* one at the loop's index (collect).
FeatureAt(n) == initial.mem.f[n + 1]
HasFeatureAt(n) == n >= 0 /\ n < Len(initial.mem.f)

RowsOfM == Dim(initial.step.inputs[2], 0)

\* At l2 the loops of DragnnLookup and DragnnLookupUnrolled hold in acc the
\* row they are about to add: the row of the feature id, with the OOV row for
\* -1 only, and no row for an id below -1.
LoopsResolveRows ==
  ( /\ \/ kernel = "DragnnLookup" /\ pc = "lookup_l2"
       \/ kernel = "DragnnLookupUnrolled" /\ pc = "unrolled_l2"
    /\ HasFeatureAt(reg.col) ) =>
     /\ FeatureAt(reg.col) >= 0 - 1
     /\ reg.acc = ResolvedRow(FeatureAt(reg.col), RowsOfM)

\* Before its store DragnnLookupSingle holds in acc the row it will refer
\* to: for an id below -1 it is no row of the matrix.
SingleResolvesRow ==
  (kernel = "DragnnLookupSingle" /\ pc = "single_store" /\ HasFeatureAt(0)) =>
     IF FeatureAt(0) >= 0 - 1
     THEN reg.acc = ResolvedRow(FeatureAt(0), RowsOfM)
     ELSE reg.acc \notin 0..(RowsOfM - 1)

\* DragnnCollect copies a row for ids >= 0 only, and after the body of its
\* loop the indicator of the current output row is 1.0 exactly for id -1.
CollectResolvesRow ==
  (kernel = "DragnnCollect" /\ HasFeatureAt(reg.index)) =>
     /\ pc = "collect_copy" =>
          /\ FeatureAt(reg.index) >= 0
          /\ reg.acc = FeatureAt(reg.index)
     /\ (pc = "collect_l3" /\ overrun = 0) =>
          LET a == Operand(reg.output, EmbeddingDims * SizeOfFloat)
          IN  InBounds(mem, a) /\
              (Word(mem, a) = OneBits <=> FeatureAt(reg.index) = 0 - 1)

\* C11: in the code of DragnnLookup, DragnnLookupUnrolled, DragnnLookupSingle
\* and DragnnCollect the OOV row is resolved (or the OOV indicator set) only
\* for a feature id of exactly -1, and a feature id below -1 resolves to no
\* row at all.
C11_OOVOnlyForMinusOne ==
  /\ LoopsResolveRows
  /\ SingleResolvesRow
  /\ CollectResolvesRow

\* What holds of the kernels with a loop.
LoopKernelsResolveUniformly ==
  /\ LoopsResolveRows
  /\ CollectResolvesRow

(***************************************************************************)
(* Fatal CHECKs of Adjust and Generate after Supports has accepted.        *)
(***************************************************************************)
\* A kernel is bound to a step only after its Supports returned true (Bind
\* through the library's selection, Compile through Supports itself).
BoundKernelSupports ==
  kernel # NoKernel =>
     Operation(kernel) = initial.step.type /\ Supports(kernel, initial.step, avx)

\* C12: for every registered kernel and every step its Supports accepted,
\* Adjust and Generate reach no fatal CHECK (DragnnLookupSingle's
\* CHECK(!f->ref()), DragnnConcat's CHECK_EQ of the bytes copied against the
\* output size, NoOpReshape's CHECKs of AllowInPlace and SharedWith).
C12_NoFatalCheckAfterSupports ==
  kernel # NoKernel => pc # "abort"

\* The same, kernel by kernel.
ConcatCheckPasses == kernel = "DragnnConcat" => pc # "abort"
SingleCheckPasses == kernel = "DragnnLookupSingle" => pc # "abort"
ReshapeChecksPass == kernel = "NoOpReshape" => pc # "abort"

\* The kernels without a CHECK cannot abort.
KernelsWithoutChecksNeverAbort ==
  kernel \in {"DragnnInitializerDummy", "DragnnCollect", "DragnnLookup",
              "DragnnLookupUnrolled"} => pc # "abort"

(***************************************************************************)
(* The loops of the generated code.                                        *)
(***************************************************************************)
LoopKernels == {"DragnnLookup", "DragnnLookupUnrolled", "DragnnCollect"}

\* How many of the first n feature ids resolve to a row (id >= -1).
ResolvedAmong(n) == Cardinality({i \in 1..n : initial.mem.f[i] >= 0 - 1})

\* The loops have stayed inside the feature ids and the tensors, have run
\* their bodies no more often than there are feature ids (and elements per
\* resolved feature), and exactly that often when the code is done.
LoopsWithinCounts ==
  /\ pc # "fault" /\ overrun = 0
  /\ iters.feature <= NumFeatures
  /\ kernel = "DragnnLookup" =>
       iters.element <= EmbeddingDims * ResolvedAmong(iters.feature)
  /\ pc = "done" =>
       /\ iters.feature = NumFeatures
       /\ kernel = "DragnnLookup" =>
            iters.element = EmbeddingDims * ResolvedAmong(NumFeatures)

\* C13: for every step DragnnLookup, DragnnLookupUnrolled or DragnnCollect
\* accepts, a feature tensor of 0 features and an embedding dimension of 0
\* included, the feature loop runs its body exactly N times (N the number of
\* feature ids), the scalar kernel's element loop exactly embedding-dimension
\* times per resolved feature, and no feature at a position >= N is read.
C13_LoopsRunToCompletion ==
  kernel \in LoopKernels => LoopsWithinCounts

\* What holds: the same for steps with at least one feature id and, for the
\* scalar kernel's element loop, an embedding dimension of at least one.
LoopsCompleteOnNonEmptySteps ==
  ( /\ kernel \in LoopKernels
    /\ NumFeatures >= 1
    /\ kernel = "DragnnLookup" => EmbeddingDims >= 1 ) => LoopsWithinCounts

\* The first pass of a loop over no feature ids reads past the feature
\* tensor.
ReadsPastNoFeatures ==
  kernel \in LoopKernels /\ NumFeatures = 0 /\ iters.feature = 1

\* The element loop of the scalar kernel over an embedding dimension of 0
\* has gone past the output.
ElementLoopPastNoElements ==
  kernel = "DragnnLookup" /\ EmbeddingDims = 0 /\ NumFeatures >= 1 /\ overrun > 0

====
